---- MODULE Spec2Model ----
(***************************************************************************)
(* Calendar utilities of src/core-js-dates-tasks.js, modelled over the     *)
(* ECMAScript Date abstract operations they call.                          *)
(*                                                                         *)
(* A Date's time value is an integer count of milliseconds since the       *)
(* epoch.  It is kept here as the pair [d, ms] with                        *)
(*     time value = d * millisecondsPerDay + ms,  0 <= ms < msPerDay,      *)
(* which is exact and keeps every intermediate number inside TLC's         *)
(* 32-bit integers.  A quotient "x / 1000 / 3600 / 24" is kept as the      *)
(* pair [whole, rem] = whole + rem / millisecondsPerDay.                   *)
(*                                                                         *)
(* The host time zone is a variable of the model (tz, the offset of local  *)
(* time from UTC in milliseconds).  The zones modelled have a fixed        *)
(* offset, LocalTime(t) = t + tz for every t: every local day is 24 hours  *)
(* long.  Zones with daylight-saving transitions are not modelled.         *)
(***************************************************************************)
EXTENDS Integers, Sequences, FiniteSets, TLC

VARIABLES tz, pc, fn, arg, res, depth

vars == <<tz, pc, fn, arg, res, depth>>

\* ------------------------------------------------------------------ bounds
\* First calendar year of the Date inputs; the years spanned by the inputs of
\* getNextFridayThe13th, and by those of the other Date functions.
FirstYear == 1999
YearSpan == 2
WideYearSpan == 8
\* Days spanned by the date strings of a period (0..PeriodDays).
PeriodDays == 4
\* Longest work-schedule period, in days after its start, and the number of
\* start days taken (from December 25 of FirstYear on).
MaxPeriod == 9
ScheduleStartDays == 70
\* Largest countWorkDays / countOffDays.
MaxPattern == 3
\* First year of the (month, year) arguments, and how many years they span.
MonthFirstYear == 1895
MonthYearSpan == 210

\* ------------------------------------------------- ECMAScript Date library
millisecondsPerDay == 1000 * 60 * 60 * 24

msPerHour == 1000 * 60 * 60

TV(d, ms) == [d |-> d, ms |-> ms]

\* t + n milliseconds, for |n| < 2 * millisecondsPerDay
TVAddMs(t, n) ==
    LET s == t.ms + n
    IN  TV(t.d + (s \div millisecondsPerDay), s % millisecondsPerDay)

\* t + n * millisecondsPerDay
TVAddDays(t, n) == TV(t.d + n, t.ms)

\* a <= b on time values
TVLeq(a, b) == a.d < b.d \/ (a.d = b.d /\ a.ms <= b.ms)

\* a - b in milliseconds, as whole days and a remainder
TVDiff(a, b) ==
    LET s == a.ms - b.ms
    IN  [whole |-> (a.d - b.d) + (s \div millisecondsPerDay),
         rem   |-> s % millisecondsPerDay]

LocalTime(t) == TVAddMs(t, tz)

UTC(t) == TVAddMs(t, 0 - tz)

DaysInYear(y) ==
    IF y % 4 # 0 THEN 365
    ELSE IF y % 100 # 0 THEN 366
    ELSE IF y % 400 # 0 THEN 365
    ELSE 366

DayFromYear(y) ==
    365 * (y - 1970) + ((y - 1969) \div 4) - ((y - 1901) \div 100)
        + ((y - 1601) \div 400)

\* the largest y with DayFromYear(y) <= day
YearFromDay(day) ==
    CHOOSE y \in (1969 + (day \div 366))..(1971 + (day \div 365)) :
            DayFromYear(y) <= day /\ day < DayFromYear(y + 1)

InLeapYear(day) == IF DaysInYear(YearFromDay(day)) = 366 THEN 1 ELSE 0

DayWithinYear(day) == day - DayFromYear(YearFromDay(day))

\* first day-within-year of each month (0-based month), for leap = 0 or 1
MonthStart(m, leap) ==
    CASE m = 0 -> 0
      [] m = 1 -> 31
      [] m = 2 -> 59 + leap
      [] m = 3 -> 90 + leap
      [] m = 4 -> 120 + leap
      [] m = 5 -> 151 + leap
      [] m = 6 -> 181 + leap
      [] m = 7 -> 212 + leap
      [] m = 8 -> 243 + leap
      [] m = 9 -> 273 + leap
      [] m = 10 -> 304 + leap
      [] m = 11 -> 334 + leap
      [] m = 12 -> 365 + leap

MonthFromDay(day) ==
    LET dwy == DayWithinYear(day)
        leap == InLeapYear(day)
    IN  CHOOSE m \in 0..11 :
            MonthStart(m, leap) <= dwy /\ dwy < MonthStart(m + 1, leap)

DateFromDay(day) ==
    DayWithinYear(day) - MonthStart(MonthFromDay(day), InLeapYear(day)) + 1

WeekDay(day) == (day + 4) % 7

\* MakeDay(year, month, date): month and date may lie outside their ranges
MakeDay(year, month, date) ==
    LET ym == year + (month \div 12)
        mn == month % 12
        leap == IF DaysInYear(ym) = 366 THEN 1 ELSE 0
    IN  DayFromYear(ym) + MonthStart(mn, leap) + date - 1

\* new Date(year, monthIndex, day): local midnight; years 0..99 mean 19xx
NewDate(year, month, date) ==
    LET yr == IF 0 <= year /\ year <= 99 THEN 1900 + year ELSE year
    IN  UTC(TV(MakeDay(yr, month, date), 0))

getDay(t) == WeekDay(LocalTime(t).d)

getDate(t) == DateFromDay(LocalTime(t).d)

getMonth(t) == MonthFromDay(LocalTime(t).d)

getFullYear(t) == YearFromDay(LocalTime(t).d)

\* ------------------------------------------------------------ input sets
TimeZones == {0 - 5 * msPerHour, 0, 3 * msPerHour}

TimesOfDay == {0, 12 * msPerHour, millisecondsPerDay - 1}

FirstDay == DayFromYear(FirstYear)

LocalDays(span) == FirstDay..(DayFromYear(FirstYear + span) - 1)

\* Date objects: every local calendar day of the span, at each time of day
Dates(span) == {UTC(TV(d, t)) : d \in LocalDays(span), t \in TimesOfDay}

\* date strings, by what they denote: "date" is YYYY-MM-DD (UTC midnight),
\* "utc" is YYYY-MM-DDTHH:mm:ss.sssZ, "local" the same without the Z
DateString(form, day, hour) ==
    [form |-> form, year |-> YearFromDay(day), month |-> MonthFromDay(day) + 1,
     day |-> DateFromDay(day), hour |-> hour, minute |-> 0, second |-> 0,
     milli |-> 0]

\* the strings of the days around the end of FirstYear
DateStrings ==
    LET days == (DayFromYear(FirstYear + 1) - 2)..(DayFromYear(FirstYear + 1) - 2 + PeriodDays)
    IN  {DateString("date", d, 0) : d \in days}
          \cup {DateString(f, d, h) : f \in {"utc", "local"}, d \in days, h \in {0, 12}}

\* a day as the characters of DD-MM-YYYY
DMY(day) ==
    LET dd == DateFromDay(day)
        mm == MonthFromDay(day) + 1
        yyyy == YearFromDay(day)
        ch == [n \in 0..9 |-> <<"0", "1", "2", "3", "4", "5", "6", "7", "8", "9">>[n + 1]]
    IN  <<ch[dd \div 10], ch[dd % 10], "-", ch[mm \div 10], ch[mm % 10], "-",
          ch[yyyy \div 1000], ch[(yyyy \div 100) % 10], ch[(yyyy \div 10) % 10],
          ch[yyyy % 10]>>

ScheduleStarts ==
    LET first == DayFromYear(FirstYear + 1) - 7
    IN  first..(first + ScheduleStartDays - 1)

\* (month, year) arguments: four-digit years, the century years among them
MonthYears == MonthFirstYear..(MonthFirstYear + MonthYearSpan - 1)

\* ------------------------------------------------------------- functions
\* getNextFriday(date), lines 94-105
getNextFriday_SameDay(date) ==
    LET day == getDay(date)
        diff == 5 - day
    IN  IF diff >= 0
        THEN TVAddDays(date, diff)
        ELSE TVAddDays(date, 7 - (IF diff < 0 THEN 0 - diff ELSE diff))

getNextFriday(date) ==
    LET day == getDay(date)
        diff == 5 - day
    IN  IF diff > 0
        THEN TVAddDays(date, diff)
        ELSE TVAddDays(date, 7 - (IF diff < 0 THEN 0 - diff ELSE diff))

\* getCountDaysInMonth(month, year), lines 118-124: diff / 1000 / 3600 / 24
getCountDaysInMonth_NoYearWrap(month, year) ==
    LET date1 == NewDate(year, month - 1, 1)
        date2 == NewDate(year, month % 12, 1)
    IN  TVDiff(date2, date1)

getCountDaysInMonth(month, year) ==
    LET date1 == NewDate(year, month - 1, 1)
        date2 == NewDate(year, month, 1)
    IN  TVDiff(date2, date1)

\* isLeapYear(date), lines 390-397
isLeapYear(date) ==
    LET year == getFullYear(date)
    IN  IF year % 400 = 0 \/ (year % 4 = 0 /\ year % 100 # 0)
        THEN TRUE
        ELSE FALSE

\* getCountWeekendsInMonth(month, year), lines 204-227
getCountWeekendsInMonth_OneMore(month, year) ==
    LET daysInMonth == TVDiff(NewDate(year, month, 1), NewDate(year, month - 1, 1))
        fullWeeks == daysInMonth.whole \div 7
        restWhole == daysInMonth.whole % 7
        lastDay == NewDate(year, month - 1, daysInMonth.whole)
        weekdayOfLastDayMonth == getDay(lastDay)
        count == restWhole + 1
        listOfDays == [k \in 1..count |->
                        IF weekdayOfLastDayMonth - (k - 1) >= 0
                        THEN weekdayOfLastDayMonth - (k - 1)
                        ELSE 7 + (weekdayOfLastDayMonth - (k - 1))]
    IN  IF restWhole # 0 \/ daysInMonth.rem # 0
        THEN fullWeeks * 2
               + Cardinality({k \in 1..count : listOfDays[k] = 0 \/ listOfDays[k] = 6})
        ELSE fullWeeks * 2

getCountWeekendsInMonth(month, year) ==
    LET daysInMonth == TVDiff(NewDate(year, month, 1), NewDate(year, month - 1, 1))
        fullWeeks == daysInMonth.whole \div 7
        \* restDays = daysInMonth % 7 = restWhole + rem / millisecondsPerDay
        restWhole == daysInMonth.whole % 7
        \* new Date(year, month - 1, daysInMonth) truncates the day argument
        lastDay == NewDate(year, month - 1, daysInMonth.whole)
        weekdayOfLastDayMonth == getDay(lastDay)
        \* the loop runs for i = 0, 1, ... while i < restDays
        count == restWhole + (IF daysInMonth.rem > 0 THEN 1 ELSE 0)
        listOfDays == [k \in 1..count |->
                        IF weekdayOfLastDayMonth - (k - 1) >= 0
                        THEN weekdayOfLastDayMonth - (k - 1)
                        ELSE 7 + (weekdayOfLastDayMonth - (k - 1))]
    IN  IF restWhole # 0 \/ daysInMonth.rem # 0
        THEN fullWeeks * 2
               + Cardinality({k \in 1..count : listOfDays[k] = 0 \/ listOfDays[k] = 6})
        ELSE fullWeeks * 2

\* the loop of lines 247-250, entered with i
RECURSIVE firstMondayLoop(_, _)
firstMondayLoop(year, i) ==
    LET firstDayOfYear == NewDate(year, 0, i + 1)
    IN  IF getDay(firstDayOfYear) = 1 \/ i = 7
        THEN firstDayOfYear
        ELSE firstMondayLoop(year, i + 1)

\* firstDayOfYear as lines 243-251 leave it
firstDayOfYear(date) ==
    LET year == getFullYear(date)
        jan1 == NewDate(year, 0, 1)
    IN  IF getDay(jan1) < 1 \/ getDay(jan1) > 4
        THEN firstMondayLoop(year, 1)
        ELSE jan1

\* Math.ceil((diff / 1000 / 3600 / 24 + 1) / 7) for diff = whole days + rem ms
weeksOfDiff(diff) ==
    IF diff.rem = 0
    THEN (diff.whole + 1 + 6) \div 7
    ELSE ((diff.whole + 1) \div 7) + 1

\* getWeekNumberByDate(date), lines 242-259
getWeekNumberByDate_NoClamp(date) ==
    weeksOfDiff(TVDiff(date, firstDayOfYear(date)))

getWeekNumberByDate(date) ==
    LET diff == TVDiff(date, firstDayOfYear(date))
    IN  IF diff.whole < 0 \/ (diff.whole = 0 /\ diff.rem = 0)
        THEN 1
        ELSE weeksOfDiff(diff)

\* resultDate of getNextFridayThe13th(date), lines 273-281
nextFridayThe13thAdvance_SameDay(date) ==
    LET day == getDay(date)
        diff == 5 - day
    IN  IF diff >= 0
        THEN TVAddDays(date, diff)
        ELSE TVAddDays(date, 7 - (IF diff < 0 THEN 0 - diff ELSE diff))

nextFridayThe13thAdvance_SkipWeek(date) ==
    LET day == getDay(date)
        diff == 5 - day
    IN  IF diff > 0
        THEN TVAddDays(date, diff + 7)
        ELSE TVAddDays(date, 7 - (IF diff < 0 THEN 0 - diff ELSE diff))

nextFridayThe13thAdvance(date) ==
    LET day == getDay(date)
        diff == 5 - day
    IN  IF diff > 0
        THEN TVAddDays(date, diff)
        ELSE TVAddDays(date, 7 - (IF diff < 0 THEN 0 - diff ELSE diff))

\* new Date(string)
MakeTime(hour, minute, second, milli) ==
    hour * msPerHour + minute * 60 * 1000 + second * 1000 + milli

Parse(s) ==
    LET day == MakeDay(s.year, s.month - 1, s.day)
        time == MakeTime(s.hour, s.minute, s.second, s.milli)
    IN  CASE s.form = "date" -> TV(day, 0)
          [] s.form = "utc" -> TV(day, time)
          [] s.form = "local" -> UTC(TV(day, time))

\* getCountDaysOnPeriod(dateStart, dateEnd), lines 137-141
getCountDaysOnPeriod(dateStart, dateEnd) ==
    LET diff == TVDiff(Parse(dateEnd), Parse(dateStart))
    IN  [whole |-> diff.whole + 1, rem |-> diff.rem]

\* isDateInPeriod(date, period), lines 160-165
isDateInPeriod_ExclusiveEnd(date, period) ==
    LET timeEnd == Parse(period.end)
        timeStart == Parse(period.start)
        givenDate == Parse(date)
    IN  TVLeq(timeStart, givenDate) /\ TVLeq(givenDate, timeEnd) /\ givenDate # timeEnd

isDateInPeriod(date, period) ==
    LET timeEnd == Parse(period.end)
        timeStart == Parse(period.start)
        givenDate == Parse(date)
    IN  TVLeq(timeStart, givenDate) /\ TVLeq(givenDate, timeEnd)

\* strings are sequences of one-character strings
DigitValue(c) ==
    CASE c = "0" -> 0 [] c = "1" -> 1 [] c = "2" -> 2 [] c = "3" -> 3
      [] c = "4" -> 4 [] c = "5" -> 5 [] c = "6" -> 6 [] c = "7" -> 7
      [] c = "8" -> 8 [] c = "9" -> 9

DigitChar(n) ==
    CASE n = 0 -> "0" [] n = 1 -> "1" [] n = 2 -> "2" [] n = 3 -> "3"
      [] n = 4 -> "4" [] n = 5 -> "5" [] n = 6 -> "6" [] n = 7 -> "7"
      [] n = 8 -> "8" [] n = 9 -> "9"

\* the number a string of digits converts to
RECURSIVE ToNumber(_)
ToNumber(s) ==
    IF Len(s) = 0 THEN 0
    ELSE 10 * ToNumber(SubSeq(s, 1, Len(s) - 1)) + DigitValue(s[Len(s)])

\* n.toString() for n >= 0
RECURSIVE toString(_)
toString(n) ==
    IF n < 10 THEN <<DigitChar(n)>>
    ELSE toString(n \div 10) \o <<DigitChar(n % 10)>>

\* s.padStart(len, c)
RECURSIVE padStart(_, _, _)
padStart(s, len, c) ==
    IF Len(s) >= len THEN s ELSE padStart(<<c>> \o s, len, c)

\* s.split(sep)
RECURSIVE split(_, _)
split(s, sep) ==
    IF \A k \in 1..Len(s) : s[k] # sep
    THEN <<s>>
    ELSE LET k == CHOOSE j \in 1..Len(s) :
                      s[j] = sep /\ \A h \in 1..(j - 1) : s[h] # sep
         IN  <<SubSeq(s, 1, k - 1)>> \o split(SubSeq(s, k + 1, Len(s)), sep)

\* the while loop of lines 349-354, entered with day
RECURSIVE listOfDates_ExclusiveEnd(_, _)
listOfDates_ExclusiveEnd(day, endDate) ==
    IF TVLeq(day, endDate) /\ day # endDate
    THEN <<day>> \o listOfDates_ExclusiveEnd(TVAddDays(day, 1), endDate)
    ELSE <<>>

RECURSIVE listOfDates(_, _)
listOfDates(day, endDate) ==
    IF TVLeq(day, endDate)
    THEN <<day>> \o listOfDates(TVAddDays(day, 1), endDate)
    ELSE <<>>

\* the template of line 374
formatDMY(date) ==
    padStart(toString(getDate(date)), 2, "0") \o <<"-">>
        \o padStart(toString(getMonth(date) + 1), 2, "0") \o <<"-">>
        \o toString(getFullYear(date))

\* getWorkSchedule(period, countWorkDays, countOffDays), lines 333-376
getWorkSchedule(period, countWorkDays, countOffDays) ==
    LET startDateComponents == split(period.start, "-")
        startDate == NewDate(ToNumber(startDateComponents[3]),
                             ToNumber(startDateComponents[2]) - 1,
                             ToNumber(startDateComponents[1]))
        endDateComponents == split(period.end, "-")
        endDate == NewDate(ToNumber(endDateComponents[3]),
                           ToNumber(endDateComponents[2]) - 1,
                           ToNumber(endDateComponents[1]))
        dates == listOfDates(startDate, endDate)
        arrayOfSchedule == [k \in 1..countWorkDays |-> 1]
                               \o [k \in 1..countOffDays |-> 0]
        \* the filter's callback, on the zero-based index
        keep(index) ==
            IF index < Len(arrayOfSchedule)
            THEN arrayOfSchedule[index + 1] # 0
            ELSE arrayOfSchedule[(index % Len(arrayOfSchedule)) + 1] # 0
        kept == SelectSeq([k \in 1..Len(dates) |-> k], LAMBDA k : keep(k - 1))
    IN  [k \in 1..Len(kept) |-> formatDMY(dates[kept[k]])]

\* ---------------------------------------------------------------- machine
Init ==
    /\ tz \in TimeZones
    /\ pc = "idle"
    /\ fn = "none"
    /\ arg = <<>>
    /\ res = <<>>
    /\ depth = 0

CallGetNextFriday ==
    /\ pc = "idle"
    /\ \E date \in Dates(WideYearSpan) :
        /\ fn' = "getNextFriday"
        /\ arg' = date
        /\ res' = getNextFriday(date)
    /\ pc' = "done"
    /\ UNCHANGED <<tz, depth>>

CallGetCountDaysInMonth ==
    /\ pc = "idle"
    /\ \E month \in 1..12, year \in MonthYears :
        /\ fn' = "getCountDaysInMonth"
        /\ arg' = [month |-> month, year |-> year]
        /\ res' = getCountDaysInMonth(month, year)
    /\ pc' = "done"
    /\ UNCHANGED <<tz, depth>>

CallGetCountWeekendsInMonth ==
    /\ pc = "idle"
    /\ \E month \in 1..12, year \in MonthYears :
        /\ fn' = "getCountWeekendsInMonth"
        /\ arg' = [month |-> month, year |-> year]
        /\ res' = getCountWeekendsInMonth(month, year)
    /\ pc' = "done"
    /\ UNCHANGED <<tz, depth>>

CallGetWeekNumberByDate ==
    /\ pc = "idle"
    /\ \E date \in Dates(WideYearSpan) :
        /\ fn' = "getWeekNumberByDate"
        /\ arg' = date
        /\ res' = getWeekNumberByDate(date)
    /\ pc' = "done"
    /\ UNCHANGED <<tz, depth>>

\* getNextFridayThe13th is entered with date; res holds the current call's date
CallGetNextFridayThe13th ==
    /\ pc = "idle"
    /\ \E date \in Dates(YearSpan) :
        /\ arg' = date
        /\ res' = date
    /\ fn' = "getNextFridayThe13th"
    /\ pc' = "recursing"
    /\ depth' = 0
    /\ UNCHANGED tz

\* one call's body, lines 273-283: advance, then return or call again
StepGetNextFridayThe13th ==
    /\ pc = "recursing"
    /\ LET resultDate == nextFridayThe13thAdvance(res)
       IN  /\ res' = resultDate
           /\ pc' = IF getDate(resultDate) = 13 THEN "done" ELSE "recursing"
    /\ depth' = depth + 1
    /\ UNCHANGED <<tz, fn, arg>>

CallGetCountDaysOnPeriod ==
    /\ pc = "idle"
    /\ \E dateStart \in DateStrings, dateEnd \in DateStrings :
        /\ fn' = "getCountDaysOnPeriod"
        /\ arg' = [dateStart |-> dateStart, dateEnd |-> dateEnd]
        /\ res' = getCountDaysOnPeriod(dateStart, dateEnd)
    /\ pc' = "done"
    /\ UNCHANGED <<tz, depth>>

CallIsDateInPeriod ==
    /\ pc = "idle"
    /\ \E date \in DateStrings, start \in DateStrings, end \in DateStrings :
        /\ fn' = "isDateInPeriod"
        /\ arg' = [date |-> date, period |-> [start |-> start, end |-> end]]
        /\ res' = isDateInPeriod(date, [start |-> start, end |-> end])
    /\ pc' = "done"
    /\ UNCHANGED <<tz, depth>>

CallGetWorkSchedule ==
    /\ pc = "idle"
    /\ \E start \in ScheduleStarts, n \in 0..MaxPeriod,
          countWorkDays \in 1..MaxPattern, countOffDays \in 1..MaxPattern :
        /\ fn' = "getWorkSchedule"
        /\ arg' = [period |-> [start |-> DMY(start), end |-> DMY(start + n)],
                   countWorkDays |-> countWorkDays, countOffDays |-> countOffDays]
        /\ res' = getWorkSchedule([start |-> DMY(start), end |-> DMY(start + n)],
                                  countWorkDays, countOffDays)
    /\ pc' = "done"
    /\ UNCHANGED <<tz, depth>>

Return ==
    /\ pc = "done"
    /\ pc' = "idle"
    /\ fn' = "none"
    /\ arg' = <<>>
    /\ res' = <<>>
    /\ depth' = 0
    /\ UNCHANGED tz

NextFriday == CallGetNextFriday \/ Return

SpecFriday == Init /\ [][NextFriday]_vars

NextMonth == CallGetCountDaysInMonth \/ CallGetCountWeekendsInMonth \/ Return

SpecMonth == Init /\ [][NextMonth]_vars

NextWeek == CallGetWeekNumberByDate \/ Return

SpecWeek == Init /\ [][NextWeek]_vars

NextPeriod == CallGetCountDaysOnPeriod \/ CallIsDateInPeriod \/ Return

SpecPeriod == Init /\ [][NextPeriod]_vars

NextSchedule == CallGetWorkSchedule \/ Return

SpecSchedule == Init /\ [][NextSchedule]_vars

NextThe13th == CallGetNextFridayThe13th \/ StepGetNextFridayThe13th \/ Return

SpecThe13th == Init /\ [][NextThe13th]_vars

Next ==
    \/ CallGetNextFriday
    \/ CallGetCountDaysInMonth
    \/ CallGetCountWeekendsInMonth
    \/ CallGetWeekNumberByDate
    \/ CallGetCountDaysOnPeriod
    \/ CallIsDateInPeriod
    \/ CallGetWorkSchedule
    \/ CallGetNextFridayThe13th
    \/ StepGetNextFridayThe13th
    \/ Return

Spec == Init /\ [][Next]_vars

\* ------------------------------------------------------------------ claims
Called(f) == pc = "done" /\ fn = f

\* C4: getNextFriday's result is a Friday, 1..7 whole days after the input,
\* at the input's time of day, with no Friday on the days in between, and
\* exactly 7 days later when the input is itself a Friday.
NextFridayIsNextFriday ==
    Called("getNextFriday") =>
        LET n == res.d - arg.d
        IN  /\ res.ms = arg.ms
            /\ n \in 1..7
            /\ WeekDay(LocalTime(res).d) = 5
            /\ LocalTime(res).ms = LocalTime(arg).ms
            /\ \A k \in 1..(n - 1) : WeekDay(LocalTime(arg).d + k) # 5
            /\ (WeekDay(LocalTime(arg).d) = 5 => n = 7)

NextFridayFromFriday ==
    /\ Called("getNextFriday")
    /\ WeekDay(LocalTime(arg).d) = 5
    /\ res = TVAddDays(arg, 7)
    /\ arg.ms # 0

\* C8: getCountDaysInMonth returns the Gregorian length of the month, a whole
\* number of days: 31 or 30 by the month, December included, and for
\* February 29 exactly when isLeapYear holds of a date of that year, which is
\* exactly when year % 400 = 0 or (year % 4 = 0 and year % 100 # 0).
DaysInMonthIsGregorian ==
    Called("getCountDaysInMonth") =>
        LET leap == isLeapYear(NewDate(arg.year, 5, 15))
        IN  /\ leap = (arg.year % 400 = 0 \/ (arg.year % 4 = 0 /\ arg.year % 100 # 0))
            /\ res.rem = 0
            /\ res.whole = IF arg.month \in {1, 3, 5, 7, 8, 10, 12} THEN 31
                           ELSE IF arg.month \in {4, 6, 9, 11} THEN 30
                           ELSE IF leap THEN 29 ELSE 28

DaysInMonthCenturyFebruary ==
    /\ Called("getCountDaysInMonth")
    /\ arg.month = 2
    /\ arg.year % 100 = 0
    /\ res.whole = 29

\* the days 1..31 that lie in the month and fall on a Saturday or a Sunday
WeekendDaysOfMonth(month, year) ==
    {d \in 1..31 : /\ MonthFromDay(MakeDay(year, month - 1, d)) = month - 1
                   /\ WeekDay(MakeDay(year, month - 1, d)) \in {0, 6}}

\* C2: getCountWeekendsInMonth equals the count of the month's days that fall
\* on a Saturday or a Sunday, found by going over every day of the month.
WeekendsMatchBruteForce ==
    Called("getCountWeekendsInMonth") =>
        res = Cardinality(WeekendDaysOfMonth(arg.month, arg.year))

WeekendsLeapFebruary ==
    /\ Called("getCountWeekendsInMonth")
    /\ arg.month = 2
    /\ res = 9

\* the ISO-8601 week number of a local calendar day: the week (Monday to
\* Sunday) is numbered within the year that holds its Thursday
IsoWeek(day) ==
    LET thursday == day - ((WeekDay(day) + 6) % 7) + 3
    IN  ((thursday - DayFromYear(YearFromDay(thursday))) \div 7) + 1

\* C1: getWeekNumberByDate returns the ISO-8601 week number of the date.
WeekNumberIsIso ==
    Called("getWeekNumberByDate") => res = IsoWeek(LocalTime(arg).d)

\* the start of week 1 of the date's year: January 1 when it is a Monday to
\* a Thursday, otherwise the first Monday after it (local midnight)
WeekOneStart(date) ==
    LET jan1 == DayFromYear(YearFromDay(LocalTime(date).d))
        wd == WeekDay(jan1)
    IN  UTC(TV(IF wd \in 1..4 THEN jan1 ELSE jan1 + ((8 - wd) % 7), 0))

FridayThe13th(day) == WeekDay(day) = 5 /\ DateFromDay(day) = 13

\* C3: the result of getNextFridayThe13th is a Friday, the 13th of its month,
\* on a later day than the input, and no calendar day after the input's and
\* before the result's is a Friday the 13th.
The13thIsNext ==
    Called("getNextFridayThe13th") =>
        LET a == LocalTime(arg)
            r == LocalTime(res)
        IN  /\ FridayThe13th(r.d)
            /\ r.d > a.d
            /\ ~TVLeq(res, arg)
            /\ \A k \in (a.d + 1)..(r.d - 1) : ~FridayThe13th(k)

The13thFromThe13th ==
    /\ Called("getNextFridayThe13th")
    /\ FridayThe13th(LocalTime(arg).d)
    /\ res.d - arg.d = 61 * 7

\* C9: getNextFridayThe13th returns after at most 84 advances, and every
\* advance moves the date forward by 1 to 7 whole days.  (depth counts the
\* advances made; a call that has not returned always makes the next one, and
\* nothing caps depth, so the bound on depth is the bound on the recursion.)
The13thWithin84 ==
    /\ [](depth <= 84)
    /\ [][pc = "recursing" =>
            /\ depth' = depth + 1
            /\ res'.ms = res.ms
            /\ res'.d - res.d \in 1..7]_vars

The13thLongestSearch ==
    /\ Called("getNextFridayThe13th")
    /\ WeekDay(LocalTime(arg).d) = 6
    /\ depth = 61

\* a strictly before b, as instants
Before(a, b) == a.d < b.d \/ (a.d = b.d /\ a.ms < b.ms)

\* C6: getCountDaysOnPeriod returns an integer, the whole days from start to
\* end plus 1.
CountDaysIsWholeInclusive ==
    Called("getCountDaysOnPeriod") =>
        LET s == Parse(arg.dateStart)
            e == Parse(arg.dateEnd)
        IN  /\ res.rem = 0
            /\ res.whole = 1 + CHOOSE n \in (0 - PeriodDays - 2)..(PeriodDays + 2) :
                                   /\ ~Before(e, TVAddDays(s, n))
                                   /\ Before(e, TVAddDays(s, n + 1))

\* C7: isDateInPeriod is true exactly when the date is neither before the
\* period's start nor after its end; the start and the end themselves are in.
InPeriodIffBetween ==
    Called("isDateInPeriod") =>
        LET d == Parse(arg.date)
            s == Parse(arg.period.start)
            e == Parse(arg.period.end)
        IN  /\ res = (~Before(d, s) /\ ~Before(e, d))
            /\ ((d = s /\ ~Before(e, s)) => res = TRUE)
            /\ ((d = e /\ ~Before(e, s)) => res = TRUE)

InPeriodAtEnd ==
    /\ Called("isDateInPeriod")
    /\ Parse(arg.date) = Parse(arg.period.end)
    /\ arg.date.form # arg.period.end.form
    /\ Before(Parse(arg.period.start), Parse(arg.date))
    /\ res = TRUE

\* the offsets 0..n whose place in the work/off cycle is a work day, ascending
WorkOffsets(n, workDays, offDays) ==
    SelectSeq([k \in 1..(n + 1) |-> k - 1],
              LAMBDA i : i % (workDays + offDays) < workDays)

\* the day a DD-MM-YYYY string names, read digit by digit
DayOfDMY(s) ==
    LET v(k) == CHOOSE n \in 0..9 :
                    <<"0", "1", "2", "3", "4", "5", "6", "7", "8", "9">>[n + 1] = s[k]
    IN  MakeDay(1000 * v(7) + 100 * v(8) + 10 * v(9) + v(10),
                10 * v(4) + v(5) - 1,
                10 * v(1) + v(2))

\* C5: getWorkSchedule returns the days start + i, for the offsets i of the
\* period with i mod (workDays + offDays) < workDays, each once and in order,
\* as DD-MM-YYYY.
WorkScheduleIsPattern ==
    Called("getWorkSchedule") =>
        LET start == DayOfDMY(arg.period.start)
            n == DayOfDMY(arg.period.end) - start
            offsets == WorkOffsets(n, arg.countWorkDays, arg.countOffDays)
        IN  /\ n >= 0
            /\ res = [k \in 1..Len(offsets) |-> DMY(start + offsets[k])]

WorkScheduleManyCycles ==
    /\ Called("getWorkSchedule")
    /\ arg.countWorkDays + arg.countOffDays <= 3
    /\ Len(res) >= 4
    /\ res[1][5] # res[Len(res)][5]
    /\ res[Len(res)] = arg.period.end

====
